---- MODULE Spec2Model ----
(***************************************************************************)
(* Verification model of the two light-cycle bots of this repository:      *)
(*   src/agent.py         the phased engine (floodfill / panic /           *)
(*                        post_corridor_fill)                              *)
(*   src/sample_agent.py  the simple variant (safe-move filter + boost)    *)
(* Both keep one process-wide Game object (board + two agents) that the    *)
(* /send-state handler overwrites field by field and the /send-move        *)
(* handler reads.                                                          *)
(*                                                                         *)
(* LAST_POSTED_STATE is written by every sync and read only into the       *)
(* unused locals `state` / `turn_count` of sample_agent.send_move; it      *)
(* decides nothing and is not part of the state here.                      *)
(*                                                                         *)
(* Flask serves every request on a thread of its own. A handler is a       *)
(* sequence of steps, one per statement that reads or writes the shared    *)
(* game, the lock or the attributes of send_move; the steps of requests    *)
(* under way interleave freely, and game_lock excludes only the blocks     *)
(* that hold it. The specifications of a match put the engine in front:    *)
(* it sends a request after the answer to the one before.                  *)
(***************************************************************************)
EXTENDS Integers, Sequences, FiniteSets, TLC

\* ------------------------------------------------------------------------
\* Bounds of the model (the real board of case_closed_game is 20 x 18).
\* ------------------------------------------------------------------------
W == 3
H == 2

\* ------------------------------------------------------------------------
\* case_closed_game: the parts of the game library the bots rely on.
\* ------------------------------------------------------------------------
EMPTY == 0
AGENT == 1

\* Direction enum, in definition order (iteration order of `for d in Direction`).
Direction == <<"UP", "DOWN", "RIGHT", "LEFT">>
DirNames == {"UP", "DOWN", "RIGHT", "LEFT"}

\* Direction.value: the (dx, dy) delta; y grows downwards.
value(d) ==
  CASE d = "UP" -> <<0, -1>>
    [] d = "DOWN" -> <<0, 1>>
    [] d = "RIGHT" -> <<1, 0>>
    [] d = "LEFT" -> <<-1, 0>>

\* The direction whose delta is (-dx, -dy).
Reverse(d) ==
  CASE d = "UP" -> "DOWN"
    [] d = "DOWN" -> "UP"
    [] d = "RIGHT" -> "LEFT"
    [] d = "LEFT" -> "RIGHT"

VARIABLES
  board,      \* GLOBAL_GAME.board: [width, height, readable, marked]
  agents,     \* GLOBAL_GAME.agent1 / agent2: 1..2 -> [trail, direction, alive, length, boosts_remaining]
  turns,      \* GLOBAL_GAME.turns
  phase,      \* send_move.phase
  escape_dx,  \* send_move.escape_dx
  resp,       \* the response of the request handled last
  mv,         \* the /send-move requests under way, per thread slot
  sy,         \* the /send-state requests under way, per thread slot
  en,         \* the /end requests under way, per thread slot
  lock,       \* game_lock: "free" or "held"
  stable,     \* trail pairs that were the whole shared state at some instant the lock was free
  engine,     \* the game engine's side of a match: the player it plays this process as
  attrs       \* the attributes of the function object send_move that exist

vars == <<board, agents, turns, phase, escape_dx, resp, mv, sy, en, lock, stable, engine, attrs>>

CellsOf(w, h) == (0 .. (w - 1)) \X (0 .. (h - 1))
Cells == CellsOf(board.width, board.height)

\* (x + dx) % w, (y + dy) % h
Step(c, d, w, h) == <<(c[1] + value(d)[1]) % w, (c[2] + value(d)[2]) % h>>

\* GameBoard.get_cell_state on a grid that can be indexed (b.readable); on a
\* grid a sync installed that cannot be indexed the lookup raises.
get_cell_state(b, c) == IF c \in b.marked THEN AGENT ELSE EMPTY

\* ------------------------------------------------------------------------
\* flood_fill_space: breadth-first count of the cells reachable from pos.
\* ------------------------------------------------------------------------
\* One pass of the `while queue:` loop for the popped cell c: the neighbours it
\* appends (none when c is skipped) and the visited set it leaves.
FloodAppend(c, visited, occupied, w, h) ==
  IF c \in visited \/ c \in occupied THEN <<>>
  ELSE SelectSeq([i \in 1 .. 4 |-> Step(c, Direction[i], w, h)],
                 LAMBDA n : n \notin (visited \cup {c}) /\ n \notin occupied)

FloodVisit(c, visited, occupied) ==
  IF c \in visited \/ c \in occupied THEN visited ELSE visited \cup {c}

\* The passes that pop a cell and `continue` (lines 24-25), taken at once: the
\* queue from its first cell that is neither visited nor occupied on.
FloodSkip(queue, visited, occupied) ==
  LET live == {i \in 1 .. Len(queue) : queue[i] \notin visited /\ queue[i] \notin occupied}
  IN IF live = {} THEN <<>>
     ELSE SubSeq(queue, CHOOSE i \in live : \A j \in live : i <= j, Len(queue))

\* The `while queue:` loop from a queue whose first cell will be visited.
RECURSIVE FloodLoop(_, _, _, _, _)
FloodLoop(queue, visited, occupied, w, h) ==
  IF queue = <<>> THEN Cardinality(visited)
  ELSE FloodLoop(FloodSkip(Tail(queue) \o FloodAppend(Head(queue), visited, occupied, w, h),
                           FloodVisit(Head(queue), visited, occupied), occupied),
                 FloodVisit(Head(queue), visited, occupied), occupied, w, h)

\* Variant: the start cell counts as free even when it is occupied.
flood_fill_space_StartFree(pos, b, occupied) ==
  FloodLoop(FloodSkip(<<pos>>, {}, occupied \ {pos}), {}, occupied \ {pos}, b.width, b.height)

flood_fill_space(pos, b, occupied) ==
  FloodLoop(FloodSkip(<<pos>>, {}, occupied), {}, occupied, b.width, b.height)

\* ------------------------------------------------------------------------
\* is_suicidal: board state first, explicit trail set as a second check.
\* ------------------------------------------------------------------------
\* Variant: the board alone decides when it can be read.
is_suicidal_BoardOnly(head, target, b, occupied_trails) ==
  IF b.readable THEN get_cell_state(b, target) # EMPTY
  ELSE target \in occupied_trails

is_suicidal(head, target, b, occupied_trails) ==
  LET cell_state == IF b.readable
                    THEN get_cell_state(b, target)
                    ELSE (IF target \in occupied_trails THEN AGENT ELSE EMPTY)
  IN IF cell_state # EMPTY THEN TRUE
     ELSE IF target \in occupied_trails THEN TRUE
     ELSE FALSE

\* ------------------------------------------------------------------------
\* choose_non_suicidal_move
\* ------------------------------------------------------------------------
\* list.sort(reverse=True, key=space): stable, so equal scores keep their order.
RECURSIVE InsertDesc(_, _)
InsertDesc(sorted, c) ==
  IF sorted = <<>> THEN <<c>>
  ELSE IF Head(sorted)[1] >= c[1] THEN <<Head(sorted)>> \o InsertDesc(Tail(sorted), c)
  ELSE <<c>> \o sorted

\* Variant: the candidates stay in the order they were generated in.
SortDesc_Unsorted(cands) == cands

RECURSIVE SortDesc(_)
SortDesc(cands) ==
  IF cands = <<>> THEN <<>>
  ELSE InsertDesc(SortDesc(SubSeq(cands, 1, Len(cands) - 1)), cands[Len(cands)])

\* First candidate of the list whose target is not suicidal, "None" if none is.
RECURSIVE FirstSafe(_, _, _, _)
FirstSafe(cands, head, b, occupied_trails) ==
  IF cands = <<>> THEN "None"
  ELSE IF ~is_suicidal(head, Head(cands)[3], b, occupied_trails) THEN Head(cands)[2]
  ELSE FirstSafe(Tail(cands), head, b, occupied_trails)

choose_non_suicidal_move(head, b, occupied_trails, candidate_moves, cur_dir) ==
  IF candidate_moves = <<>> THEN "None"
  ELSE LET sorted == SortDesc(candidate_moves)
           safe == FirstSafe(sorted, head, b, occupied_trails)
       IN IF safe # "None" THEN safe ELSE sorted[1][2]

\* ------------------------------------------------------------------------
\* send_move of agent.py: what it computes from the values it has read.
\* ------------------------------------------------------------------------
Abs(n) == IF n < 0 THEN -n ELSE n

PANIC_THRESHOLD == 1

\* corridor_y = (start_y + h // 2) % h
CorridorY(start, b) == (start[2] + (b.height \div 2)) % b.height

\* sneaky_corridor: every cell of the corridor row
SneakyCorridor(start, b) == {<<x % b.width, CorridorY(start, b)>> : x \in 0 .. (b.width - 1)}

\* Variant: nothing filtered out.
Candidates_All(cur_dir) == Direction

\* directions: all of Direction but the reverse of the current heading
Candidates(cur_dir) ==
  LET keep(d) == value(d) # <<-value(cur_dir)[1], -value(cur_dir)[2]>>
  IN SelectSeq(Direction, keep)

\* move_options: (space, direction, target) per candidate whose target is not the head
RECURSIVE OptionsOf(_, _, _, _)
OptionsOf(dirs, head, b, blocked) ==
  IF dirs = <<>> THEN <<>>
  ELSE LET d == Head(dirs)
           n == Step(head, d, b.width, b.height)
           rest == OptionsOf(Tail(dirs), head, b, blocked)
       IN IF n = head THEN rest
          ELSE <<(<<flood_fill_space(n, b, blocked), d, n>>)>> \o rest

MoveOptions(head, start, cur_dir, b, occupied_trails) ==
  OptionsOf(Candidates(cur_dir), head, b, occupied_trails \cup SneakyCorridor(start, b))

\* horiz_sep <= PANIC_THRESHOLD (opp_head = <<>> stands for None: separation inf)
Close(head, opp_head) ==
  opp_head # <<>> /\ Abs(head[1] - opp_head[1]) <= PANIC_THRESHOLD

\* Variant: the separation is tested strictly.
TriggerFires_Strict(ph, head, opp_head) ==
  ph = "floodfill" /\ opp_head # <<>> /\ Abs(head[1] - opp_head[1]) < PANIC_THRESHOLD

\* Variant: the trigger also fires in post_corridor_fill.
TriggerFires_Again(ph, head, opp_head) ==
  ph \in {"floodfill", "post_corridor_fill"} /\ Close(head, opp_head)

\* Panic trigger, line 182
TriggerFires(ph, head, opp_head) == ph = "floodfill" /\ Close(head, opp_head)

\* Corridor infiltration check
CorridorBlocked(ph, head, opp_head, start, b) ==
  /\ opp_head # <<>>
  /\ ph = "panic"
  /\ head[2] # CorridorY(start, b)
  /\ opp_head[2] = CorridorY(start, b)
  /\ \/ (head[1] < start[1] /\ head[1] < opp_head[1] /\ opp_head[1] <= start[1])
     \/ (head[1] > start[1] /\ start[1] <= opp_head[1] /\ opp_head[1] < head[1])

\* Variant: the vertical step points away from the corridor row.
Tentative_Flipped(head, start, b) ==
  IF head[2] # CorridorY(start, b)
  THEN (IF head[2] < CorridorY(start, b) THEN "UP" ELSE "DOWN")
  ELSE IF head[1] # start[1]
  THEN (IF head[1] < start[1] THEN "RIGHT" ELSE "LEFT")
  ELSE "None"

\* Variant: the escape is over as soon as the head is on the corridor row.
Tentative_Early(head, start, b) ==
  IF head[2] # CorridorY(start, b)
  THEN (IF head[2] < CorridorY(start, b) THEN "DOWN" ELSE "UP")
  ELSE "None"

\* The tentative escape step of the panic branch ("None" at the corridor exit).
Tentative(head, start, b) ==
  IF head[2] # CorridorY(start, b)
  THEN (IF head[2] < CorridorY(start, b) THEN "DOWN" ELSE "UP")
  ELSE IF head[1] # start[1]
  THEN (IF head[1] < start[1] THEN "RIGHT" ELSE "LEFT")
  ELSE "None"

\* ------------------------------------------------------------------------
\* JSON values of a sync payload and the conversions applied to them.
\* A scalar is [t, n]: t = "int" the number n, t = "bool" true/false (n = 1/0),
\* t = "numstr" the string of the decimal digits of n, t = "badstr" a
\* non-empty string that is no number.
\* ------------------------------------------------------------------------
JInt(n) == [t |-> "int", n |-> n]
JBool(v) == [t |-> "bool", n |-> IF v THEN 1 ELSE 0]
JNumStr(n) == [t |-> "numstr", n |-> n]
JBadStr == [t |-> "badstr", n |-> 0]

\* int(v) raises ValueError on a string that is no number
IntRaises(v) == v.t = "badstr"
IntOf(v) == v.n

\* bool(v): a number is true when non-zero, a non-empty string always
BoolOf(v) == IF v.t \in {"int", "bool"} THEN v.n # 0 ELSE TRUE

\* ------------------------------------------------------------------------
\* _update_local_game_from_post: the fields in the order the code applies them.
\* ------------------------------------------------------------------------
FieldOrder ==
  <<"board", "agent1_trail", "agent2_trail", "agent1_length", "agent2_length",
    "agent1_alive", "agent2_alive", "agent1_boosts", "agent2_boosts", "turn_count">>

Fields == {FieldOrder[i] : i \in 1 .. Len(FieldOrder)}

\* One `if "<field>" in data:` statement, on the game g = [board, agents, turns, raised].
ApplyField(g, data, f) ==
  IF g.raised \/ f \notin DOMAIN data THEN g
  ELSE CASE f = "board" ->
              [g EXCEPT !.board.readable = data[f].readable, !.board.marked = data[f].marked]
         [] f = "agent1_trail" -> [g EXCEPT !.agents[1].trail = data[f]]
         [] f = "agent2_trail" -> [g EXCEPT !.agents[2].trail = data[f]]
         [] f = "agent1_length" ->
              IF IntRaises(data[f]) THEN [g EXCEPT !.raised = TRUE]
              ELSE [g EXCEPT !.agents[1].length = IntOf(data[f])]
         [] f = "agent2_length" ->
              IF IntRaises(data[f]) THEN [g EXCEPT !.raised = TRUE]
              ELSE [g EXCEPT !.agents[2].length = IntOf(data[f])]
         [] f = "agent1_alive" -> [g EXCEPT !.agents[1].alive = BoolOf(data[f])]
         [] f = "agent2_alive" -> [g EXCEPT !.agents[2].alive = BoolOf(data[f])]
         [] f = "agent1_boosts" ->
              IF IntRaises(data[f]) THEN [g EXCEPT !.raised = TRUE]
              ELSE [g EXCEPT !.agents[1].boosts_remaining = IntOf(data[f])]
         [] f = "agent2_boosts" ->
              IF IntRaises(data[f]) THEN [g EXCEPT !.raised = TRUE]
              ELSE [g EXCEPT !.agents[2].boosts_remaining = IntOf(data[f])]
         [] f = "turn_count" ->
              IF IntRaises(data[f]) THEN [g EXCEPT !.raised = TRUE]
              ELSE [g EXCEPT !.turns = IntOf(data[f])]

\* `if not data`: no body, or an empty JSON object
NoData(data) == DOMAIN data = {}

\* ------------------------------------------------------------------------
\* Game(): the layout at process start. case_closed_game places agent 1 at
\* (1, 2) heading RIGHT and agent 2 at (width - 3, height - 3) heading LEFT,
\* each with a trail of its start cell and the next cell, marked on the board.
\* ------------------------------------------------------------------------
StartPosOn(i, w, h) == IF i = 1 THEN <<1 % w, 2 % h>> ELSE <<(w - 3) % w, (h - 3) % h>>
StartDir(i) == IF i = 1 THEN "RIGHT" ELSE "LEFT"
StartTrailOn(i, w, h) == <<StartPosOn(i, w, h), Step(StartPosOn(i, w, h), StartDir(i), w, h)>>
StartPos(i) == StartPosOn(i, W, H)
StartTrail(i) == StartTrailOn(i, W, H)

Range(q) == {q[i] : i \in 1 .. Len(q)}

NewAgentOn(i, w, h) ==
  [trail |-> StartTrailOn(i, w, h), direction |-> StartDir(i), alive |-> TRUE,
   length |-> 2, boosts_remaining |-> 3]

NewBoardOn(w, h) ==
  [width |-> w, height |-> h, readable |-> TRUE,
   marked |-> Range(StartTrailOn(1, w, h)) \cup Range(StartTrailOn(2, w, h))]

NewAgent(i) == NewAgentOn(i, W, H)
NewBoard == NewBoardOn(W, H)

\* ------------------------------------------------------------------------
\* The requests. Flask serves every request on a thread of its own, so the
\* handlers run interleaved statement by statement; game_lock is held by
\* _update_local_game_from_post for its whole body and by send_move only
\* while it picks the two agent objects. Every action below is one statement
\* (or a run of statements that touch no shared state besides one read or
\* one write) of the request in slot t. mv[t], sy[t] and en[t] hold the
\* position and the locals of the /send-move, /send-state and /end request
\* in slot t. The code sets no limit to the requests under way; the model
\* holds MaxInFlight of each kind.
\* ------------------------------------------------------------------------
MaxInFlight == 2

Threads == 1 .. MaxInFlight

Head_(trail) == trail[Len(trail)]

Other(p) == IF p = 1 THEN 2 ELSE 1

\* A slot with no request. player, from and reset are history, not program
\* state: the player asked for, the phase found when the request arrived, and
\* whether a match reset arrived ("pending") and finished ("done") while the
\* request was under way.
MvIdle ==
  [pc |-> "idle", player |-> 0, from |-> "none", reset |-> "none",
   head |-> <<>>, opp_head |-> <<>>, start |-> <<>>, my_trail |-> <<>>, opp_trail |-> <<>>,
   options |-> <<>>, tentative |-> "None", next_move |-> "None", scan |-> <<>>,
   boosts |-> 0, safe_moves |-> <<>>, max_space |-> -1, chosen |-> "None"]

\* from and before are history: the phase and the game found on arrival.
SyIdle == [pc |-> "idle", data |-> <<>>, todo |-> <<>>, from |-> "none", before |-> <<>>]

NoRequest == [t \in Threads |-> MvIdle]
NoSync == [t \in Threads |-> SyIdle]

\* The slots of a kind are interchangeable: t is the first idle one.
FirstIdle(slots, t) == slots[t].pc = "idle" /\ \A u \in Threads : u < t => slots[u].pc # "idle"

\* No request is under way.
Quiet == \A t \in Threads : mv[t].pc = "idle" /\ sy[t].pc = "idle" /\ en[t].pc = "idle"

Answer200(t, d) ==
  [op |-> "move", status |-> 200, move |-> d, player |-> mv[t].player, from |-> mv[t].from, boost |-> FALSE]

\* An exception leaves the handler: Flask answers 500.
Answer500(t) ==
  [op |-> "move", status |-> 500, move |-> "None", player |-> mv[t].player, from |-> mv[t].from, boost |-> FALSE]

\* jsonify({"move": ...}), 200 / the 500 of an uncaught exception: the request is over.
Return(t, r) ==
  /\ resp' = r
  /\ mv' = [mv EXCEPT ![t] = MvIdle]

\* The attributes send_move keeps its state in.
Attrs == {"phase", "escape_dx"}

\* send_move, lines 128-131: the request arrives and tests
\* hasattr(send_move, "phase"); line 135 reads the player number.
M_Begin(t, p) ==
  /\ mv[t].pc = "idle"
  /\ mv' = [mv EXCEPT ![t] = [MvIdle EXCEPT !.pc = IF "phase" \in attrs THEN "refs" ELSE "init_phase",
                                            !.player = p, !.from = phase]]
  /\ UNCHANGED <<board, agents, turns, phase, escape_dx, resp, sy, en, lock, stable, engine, attrs>>

\* line 132: send_move.phase = "floodfill" creates the attribute, or
\* overwrites the one another request created since line 131
M_InitPhase(t) ==
  /\ mv[t].pc = "init_phase"
  /\ phase' = "floodfill"
  /\ attrs' = attrs \cup {"phase"}
  /\ mv' = [mv EXCEPT ![t].pc = "init_esc"]
  /\ UNCHANGED <<board, agents, turns, escape_dx, resp, sy, en, lock, stable, engine>>

\* line 133: send_move.escape_dx = 0
M_InitEsc(t) ==
  /\ mv[t].pc = "init_esc"
  /\ escape_dx' = 0
  /\ attrs' = attrs \cup {"escape_dx"}
  /\ mv' = [mv EXCEPT ![t].pc = "refs"]
  /\ UNCHANGED <<board, agents, turns, phase, resp, sy, en, lock, stable, engine>>

\* lines 136-138: `with game_lock:` picks my_agent and opponent, nothing else
M_Refs(t) ==
  /\ mv[t].pc = "refs"
  /\ lock = "free"
  /\ mv' = [mv EXCEPT ![t].pc = "head"]
  /\ UNCHANGED <<board, agents, turns, phase, escape_dx, resp, sy, en, lock, stable, engine, attrs>>

\* line 140: head = my_agent.trail[-1]; IndexError on an empty trail
M_Head(t) ==
  /\ mv[t].pc = "head"
  /\ IF agents[mv[t].player].trail = <<>>
     THEN Return(t, Answer500(t))
     ELSE /\ mv' = [mv EXCEPT ![t].pc = "opp", ![t].head = Head_(agents[mv[t].player].trail)]
          /\ UNCHANGED resp
  /\ UNCHANGED <<board, agents, turns, phase, escape_dx, sy, en, lock, stable, engine, attrs>>

\* opponent.trail[-1] if opponent.alive else None (<<>> stands for None)
OppHead(opp) == IF opp.alive THEN Head_(opp.trail) ELSE <<>>

\* line 141, the condition: opponent.alive; a dead opponent has no head
M_OppAlive(t) ==
  /\ mv[t].pc = "opp"
  /\ mv' = IF agents[Other(mv[t].player)].alive
           THEN [mv EXCEPT ![t].pc = "opp_trail"]
           ELSE [mv EXCEPT ![t].pc = "start", ![t].opp_head = <<>>]
  /\ UNCHANGED <<board, agents, turns, phase, escape_dx, resp, sy, en, lock, stable, engine, attrs>>

\* line 141, the value: opponent.trail[-1]; IndexError on an empty trail
M_OppTrail(t) ==
  LET opponent == agents[Other(mv[t].player)] IN
  /\ mv[t].pc = "opp_trail"
  /\ IF opponent.trail = <<>>
     THEN Return(t, Answer500(t))
     ELSE /\ mv' = [mv EXCEPT ![t].pc = "start", ![t].opp_head = Head_(opponent.trail)]
          /\ UNCHANGED resp
  /\ UNCHANGED <<board, agents, turns, phase, escape_dx, sy, en, lock, stable, engine, attrs>>

\* line 143: start_x, start_y = my_agent.trail[0]
M_Start(t) ==
  /\ mv[t].pc = "start"
  /\ IF agents[mv[t].player].trail = <<>>
     THEN Return(t, Answer500(t))
     ELSE /\ mv' = [mv EXCEPT ![t].pc = "occ_my", ![t].start = agents[mv[t].player].trail[1]]
          /\ UNCHANGED resp
  /\ UNCHANGED <<board, agents, turns, phase, escape_dx, sy, en, lock, stable, engine, attrs>>

\* line 151, left operand: set(my_agent.trail)
M_OccMy(t) ==
  /\ mv[t].pc = "occ_my"
  /\ mv' = [mv EXCEPT ![t].pc = "occ_opp", ![t].my_trail = agents[mv[t].player].trail]
  /\ UNCHANGED <<board, agents, turns, phase, escape_dx, resp, sy, en, lock, stable, engine, attrs>>

\* line 151, right operand: set(opponent.trail)
M_OccOpp(t) ==
  /\ mv[t].pc = "occ_opp"
  /\ mv' = [mv EXCEPT ![t].pc = "options", ![t].opp_trail = agents[Other(mv[t].player)].trail]
  /\ UNCHANGED <<board, agents, turns, phase, escape_dx, resp, sy, en, lock, stable, engine, attrs>>

\* occupied_trails as the request in slot t has read it
MvOccupied(t) == Range(mv[t].my_trail) \cup Range(mv[t].opp_trail)

\* lines 153-179: move_options from the locals (the board's size and the
\* agent's heading are written by no request); with no candidate the heading
\* is answered.
M_Options(t) ==
  LET dir == agents[mv[t].player].direction
      options == MoveOptions(mv[t].head, mv[t].start, dir, board, MvOccupied(t))
  IN
  /\ mv[t].pc = "options"
  /\ IF options = <<>>
     THEN Return(t, Answer200(t, dir))
     ELSE /\ mv' = [mv EXCEPT ![t].pc = "trigger", ![t].options = options]
          /\ UNCHANGED resp
  /\ UNCHANGED <<board, agents, turns, phase, escape_dx, sy, en, lock, stable, engine, attrs>>

\* line 182: the test of the panic trigger reads send_move.phase
M_Trigger(t) ==
  /\ mv[t].pc = "trigger"
  /\ mv' = [mv EXCEPT ![t].pc = IF TriggerFires(phase, mv[t].head, mv[t].opp_head)
                                THEN "trigger_write" ELSE "infiltration"]
  /\ UNCHANGED <<board, agents, turns, phase, escape_dx, resp, sy, en, lock, stable, engine, attrs>>

\* line 183: send_move.phase = "panic"
M_TriggerWrite(t) ==
  /\ mv[t].pc = "trigger_write"
  /\ phase' = "panic"
  /\ mv' = [mv EXCEPT ![t].pc = "infiltration"]
  /\ UNCHANGED <<board, agents, turns, escape_dx, resp, sy, en, lock, stable, engine, attrs>>

\* lines 186-193: the infiltration check reads send_move.phase
M_Infiltration(t) ==
  /\ mv[t].pc = "infiltration"
  /\ mv' = [mv EXCEPT ![t].pc =
              IF CorridorBlocked(phase, mv[t].head, mv[t].opp_head, mv[t].start, board)
              THEN "infiltration_write" ELSE "is_floodfill"]
  /\ UNCHANGED <<board, agents, turns, phase, escape_dx, resp, sy, en, lock, stable, engine, attrs>>

\* line 194: send_move.phase = "post_corridor_fill"
M_InfiltrationWrite(t) ==
  /\ mv[t].pc = "infiltration_write"
  /\ phase' = "post_corridor_fill"
  /\ mv' = [mv EXCEPT ![t].pc = "is_floodfill"]
  /\ UNCHANGED <<board, agents, turns, escape_dx, resp, sy, en, lock, stable, engine, attrs>>

\* line 197: if send_move.phase == "floodfill"; line 198 enters
\* choose_non_suicidal_move, whose sort (line 88) orders the candidates
M_IsFloodfill(t) ==
  /\ mv[t].pc = "is_floodfill"
  /\ mv' = IF phase = "floodfill"
           THEN [mv EXCEPT ![t].pc = "choose", ![t].scan = SortDesc(mv[t].options)]
           ELSE [mv EXCEPT ![t].pc = "is_panic"]
  /\ UNCHANGED <<board, agents, turns, phase, escape_dx, resp, sy, en, lock, stable, engine, attrs>>

\* line 200: elif send_move.phase == "panic"
M_IsPanic(t) ==
  /\ mv[t].pc = "is_panic"
  /\ mv' = [mv EXCEPT ![t].pc = IF phase = "panic" THEN "tentative" ELSE "is_post"]
  /\ UNCHANGED <<board, agents, turns, phase, escape_dx, resp, sy, en, lock, stable, engine, attrs>>

\* line 225: elif send_move.phase == "post_corridor_fill". When this third
\* test fails too no branch has run, and line 238 reads the local `chosen`
\* that was never assigned: UnboundLocalError.
M_IsPost(t) ==
  /\ mv[t].pc = "is_post"
  /\ IF phase = "post_corridor_fill"
     THEN /\ mv' = [mv EXCEPT ![t].pc = "bias"]
          /\ UNCHANGED resp
     ELSE Return(t, Answer500(t))
  /\ UNCHANGED <<board, agents, turns, phase, escape_dx, sy, en, lock, stable, engine, attrs>>

\* lines 202-212 of the panic branch: the tentative step from the locals; on
\* the corridor row it assigns send_move.escape_dx (line 208), at the exit
\* send_move.phase (line 211) and then enters choose_non_suicidal_move (223).
M_Tentative(t) ==
  LET tentative == Tentative(mv[t].head, mv[t].start, board)
      on_row == mv[t].head[2] = CorridorY(mv[t].start, board)
  IN
  /\ mv[t].pc = "tentative"
  /\ phase' = IF tentative = "None" THEN "post_corridor_fill" ELSE phase
  /\ escape_dx' = IF on_row /\ tentative # "None"
                  THEN (IF mv[t].head[1] < mv[t].start[1] THEN 1 ELSE -1)
                  ELSE escape_dx
  /\ attrs' = IF on_row /\ tentative # "None" THEN attrs \cup {"escape_dx"} ELSE attrs
  /\ mv' = IF tentative = "None"
           THEN [mv EXCEPT ![t].pc = "choose", ![t].scan = SortDesc(mv[t].options)]
           ELSE [mv EXCEPT ![t].pc = "tentative_check", ![t].tentative = tentative]
  /\ UNCHANGED <<board, agents, turns, resp, sy, en, lock, stable, engine>>

\* Variant: no step is checked.
MvSuicidal_Unchecked(t, d) == FALSE

\* The request in slot t asks is_suicidal about the step d from its head: one
\* lookup of the grid as it is now, and its own occupied set.
MvSuicidal(t, d) ==
  is_suicidal(mv[t].head, Step(mv[t].head, d, board.width, board.height), board, MvOccupied(t))

\* lines 215-221: is_suicidal on the tentative step; it is answered when safe
\* (lines 238-241), else choose_non_suicidal_move is entered
M_TentativeCheck(t) ==
  /\ mv[t].pc = "tentative_check"
  /\ IF ~MvSuicidal(t, mv[t].tentative)
     THEN Return(t, Answer200(t, mv[t].tentative))
     ELSE /\ mv' = [mv EXCEPT ![t].pc = "choose", ![t].scan = SortDesc(mv[t].options)]
          /\ UNCHANGED resp
  /\ UNCHANGED <<board, agents, turns, phase, escape_dx, sy, en, lock, stable, engine, attrs>>

\* The directions bfs_next_move tries, in its order: the horizontal step of
\* the preferred side, UP and DOWN, then LEFT, RIGHT, UP, DOWN.
BfsOrder(preferred_dx) ==
  <<IF preferred_dx > 0 THEN "RIGHT" ELSE "LEFT", "UP", "DOWN", "LEFT", "RIGHT", "UP", "DOWN">>

\* line 226: reads send_move.escape_dx (`or 1`) and enters bfs_next_move;
\* AttributeError while the attribute is not created yet
M_Bias(t) ==
  /\ mv[t].pc = "bias"
  /\ IF "escape_dx" \in attrs
     THEN /\ mv' = [mv EXCEPT ![t].pc = "bfs", ![t].scan = BfsOrder(IF escape_dx # 0 THEN escape_dx ELSE 1)]
          /\ UNCHANGED resp
     ELSE Return(t, Answer500(t))
  /\ UNCHANGED <<board, agents, turns, phase, escape_dx, sy, en, lock, stable, engine, attrs>>

\* bfs_next_move, lines 39-51: one is_suicidal call; the first safe step is
\* returned, None after the last one (line 235 then enters
\* choose_non_suicidal_move)
M_Bfs(t) ==
  /\ mv[t].pc = "bfs"
  /\ mv' = IF ~MvSuicidal(t, Head(mv[t].scan))
           THEN [mv EXCEPT ![t].pc = "post_check", ![t].next_move = Head(mv[t].scan), ![t].scan = <<>>]
           ELSE IF Len(mv[t].scan) = 1
           THEN [mv EXCEPT ![t].pc = "choose", ![t].scan = SortDesc(mv[t].options)]
           ELSE [mv EXCEPT ![t].scan = Tail(mv[t].scan)]
  /\ UNCHANGED <<board, agents, turns, phase, escape_dx, resp, sy, en, lock, stable, engine, attrs>>

\* lines 228-233: is_suicidal once more on the step bfs_next_move returned
M_PostCheck(t) ==
  /\ mv[t].pc = "post_check"
  /\ IF ~MvSuicidal(t, mv[t].next_move)
     THEN Return(t, Answer200(t, mv[t].next_move))
     ELSE /\ mv' = [mv EXCEPT ![t].pc = "choose", ![t].scan = SortDesc(mv[t].options)]
          /\ UNCHANGED resp
  /\ UNCHANGED <<board, agents, turns, phase, escape_dx, sy, en, lock, stable, engine, attrs>>

\* choose_non_suicidal_move, lines 91-96: one is_suicidal call of the loop
\* over the sorted candidates; the first safe one is returned, the best-scored
\* one after the last; lines 238-241 answer it.
M_Choose(t) ==
  /\ mv[t].pc = "choose"
  /\ IF ~MvSuicidal(t, Head(mv[t].scan)[2])
     THEN Return(t, Answer200(t, Head(mv[t].scan)[2]))
     ELSE IF Len(mv[t].scan) = 1
     THEN Return(t, Answer200(t, SortDesc(mv[t].options)[1][2]))
     ELSE /\ mv' = [mv EXCEPT ![t].scan = Tail(mv[t].scan)]
          /\ UNCHANGED resp
  /\ UNCHANGED <<board, agents, turns, phase, escape_dx, sy, en, lock, stable, engine, attrs>>

\* The statements before the decision: the attributes are created and the
\* agents read, lines 131-151.
M_Reads(t) ==
  \/ M_InitPhase(t) \/ M_InitEsc(t)
  \/ M_Refs(t) \/ M_Head(t) \/ M_OppAlive(t) \/ M_OppTrail(t) \/ M_Start(t) \/ M_OccMy(t) \/ M_OccOpp(t)

\* The statements of the phase transitions and of the decision, lines 182-241.
M_Decides(t) ==
  \/ M_Trigger(t) \/ M_TriggerWrite(t) \/ M_Infiltration(t) \/ M_InfiltrationWrite(t)
  \/ M_IsFloodfill(t) \/ M_IsPanic(t) \/ M_IsPost(t) \/ M_Tentative(t)
  \/ M_TentativeCheck(t) \/ M_Bias(t) \/ M_Bfs(t) \/ M_PostCheck(t) \/ M_Choose(t)

\* Any statement of the /send-move request in slot t.
M_Step(t) == M_Reads(t) \/ M_Options(t) \/ M_Decides(t)

\* ------------------------------------------------------------------------
\* /send-state and /end. sy[t] is the /send-state request in slot t, en[t]
\* the /end request; both run _update_local_game_from_post.
\* ------------------------------------------------------------------------
PresentFields(data) == SelectSeq(FieldOrder, LAMBDA f : f \in DOMAIN data)

TrailPair == <<agents[1].trail, agents[2].trail>>

\* `stable` when the lock is released: the history is kept by the
\* specifications that start it with the first trail pair, and left empty by
\* the others.
Released == IF stable = {} THEN stable ELSE stable \cup {TrailPair}

\* board, agents and turn counter, as a request found them when it arrived.
Game == <<board, agents, turns>>

\* The answers; `from` is the phase found when the request arrived.
StateResp(status, from) ==
  [op |-> "state", status |-> status, move |-> "None", player |-> 0, from |-> from, boost |-> FALSE]

EndResp(status, from) ==
  [op |-> "end", status |-> status, move |-> "None", player |-> 0, from |-> from, boost |-> FALSE]

\* One `if "<field>" in data:` statement applied to the shared game.
FieldApplied(data, f) ==
  ApplyField([board |-> board, agents |-> agents, turns |-> turns, raised |-> FALSE], data, f)

\* receive_state, lines 250-253: the request arrives; no body, or an empty
\* object, is answered 400 at once
S_Begin(t, data) ==
  /\ sy[t].pc = "idle"
  /\ IF NoData(data)
     THEN /\ resp' = StateResp(400, phase)
          /\ UNCHANGED sy
     ELSE /\ sy' = [sy EXCEPT ![t] = [pc |-> "lock", data |-> data, todo |-> PresentFields(data), from |-> phase, before |-> Game]]
          /\ UNCHANGED resp
  /\ UNCHANGED <<board, agents, turns, phase, escape_dx, mv, en, lock, stable, engine, attrs>>

\* _update_local_game_from_post, line 100: `with game_lock:`
U_Acquire(t) ==
  /\ sy[t].pc = "lock"
  /\ lock = "free"
  /\ lock' = "held"
  /\ sy' = [sy EXCEPT ![t].pc = "fields"]
  /\ UNCHANGED <<board, agents, turns, phase, escape_dx, resp, mv, en, stable, engine, attrs>>

\* lines 103-125: the next `if "<field>" in data:` statement of a present
\* field; a conversion that raises leaves the `with` block and the handler.
U_Field(t) ==
  LET g == FieldApplied(sy[t].data, Head(sy[t].todo)) IN
  /\ sy[t].pc = "fields"
  /\ sy[t].todo # <<>>
  /\ IF g.raised
     THEN /\ lock' = "free"
          /\ stable' = Released
          /\ resp' = StateResp(500, sy[t].from)
          /\ sy' = [sy EXCEPT ![t] = SyIdle]
          /\ UNCHANGED <<board, agents, turns>>
     ELSE /\ board' = g.board
          /\ agents' = g.agents
          /\ turns' = g.turns
          /\ sy' = [sy EXCEPT ![t].todo = Tail(sy[t].todo)]
          /\ UNCHANGED <<lock, stable, resp>>
  /\ UNCHANGED <<phase, escape_dx, mv, en, engine, attrs>>

\* the end of the `with` block, and of receive_state (line 254)
U_Release(t) ==
  /\ sy[t].pc = "fields"
  /\ sy[t].todo = <<>>
  /\ lock' = "free"
  /\ stable' = Released
  /\ sy' = [sy EXCEPT ![t] = SyIdle]
  /\ resp' = StateResp(200, sy[t].from)
  /\ UNCHANGED <<board, agents, turns, phase, escape_dx, mv, en, engine, attrs>>

\* Any statement of the /send-state request in slot t.
S_Step(t) == U_Acquire(t) \/ U_Field(t) \/ U_Release(t)

\* The /send-move requests under way learn that a match reset arrived / finished.
ResetSeen(from, to) ==
  [t \in Threads |-> IF mv[t].pc # "idle" /\ mv[t].reset = from
                     THEN [mv[t] EXCEPT !.reset = to] ELSE mv[t]]

\* end_game, lines 258-260: the request arrives; with a body it calls
\* _update_local_game_from_post first
E_Begin(t, data) ==
  /\ en[t].pc = "idle"
  /\ en' = [en EXCEPT ![t] = IF NoData(data)
                             THEN [SyIdle EXCEPT !.pc = "reset_phase", !.from = phase]
                             ELSE [pc |-> "lock", data |-> data, todo |-> PresentFields(data),
                                   from |-> phase, before |-> Game]]
  /\ mv' = ResetSeen("none", "pending")
  /\ UNCHANGED <<board, agents, turns, phase, escape_dx, resp, sy, lock, stable, engine, attrs>>

\* _update_local_game_from_post called by end_game, line 100
E_Acquire(t) ==
  /\ en[t].pc = "lock"
  /\ lock = "free"
  /\ lock' = "held"
  /\ en' = [en EXCEPT ![t].pc = "fields"]
  /\ UNCHANGED <<board, agents, turns, phase, escape_dx, resp, mv, sy, stable, engine, attrs>>

\* lines 103-125 called by end_game; a conversion that raises ends the
\* request before its reset
E_Field(t) ==
  LET g == FieldApplied(en[t].data, Head(en[t].todo)) IN
  /\ en[t].pc = "fields"
  /\ en[t].todo # <<>>
  /\ IF g.raised
     THEN /\ lock' = "free"
          /\ stable' = Released
          /\ resp' = EndResp(500, en[t].from)
          /\ en' = [en EXCEPT ![t] = SyIdle]
          /\ UNCHANGED <<board, agents, turns>>
     ELSE /\ board' = g.board
          /\ agents' = g.agents
          /\ turns' = g.turns
          /\ en' = [en EXCEPT ![t].todo = Tail(en[t].todo)]
          /\ UNCHANGED <<lock, stable, resp>>
  /\ UNCHANGED <<phase, escape_dx, mv, sy, engine, attrs>>

\* the end of the `with` block called by end_game
E_Release(t) ==
  /\ en[t].pc = "fields"
  /\ en[t].todo = <<>>
  /\ lock' = "free"
  /\ stable' = Released
  /\ en' = [en EXCEPT ![t] = [SyIdle EXCEPT !.pc = "reset_phase", !.from = en[t].from]]
  /\ UNCHANGED <<board, agents, turns, phase, escape_dx, resp, mv, sy, engine, attrs>>

\* end_game, line 263: send_move.phase = "floodfill"
E_ResetPhase(t) ==
  /\ en[t].pc = "reset_phase"
  /\ phase' = "floodfill"
  /\ attrs' = attrs \cup {"phase"}
  /\ en' = [en EXCEPT ![t].pc = "reset_esc"]
  /\ UNCHANGED <<board, agents, turns, escape_dx, resp, mv, sy, lock, stable, engine>>

\* end_game, lines 264-266: send_move.escape_dx = 0 and the answer
E_ResetEsc(t) ==
  /\ en[t].pc = "reset_esc"
  /\ escape_dx' = 0
  /\ attrs' = attrs \cup {"escape_dx"}
  /\ en' = [en EXCEPT ![t] = SyIdle]
  /\ resp' = EndResp(200, en[t].from)
  /\ mv' = ResetSeen("pending", "done")
  /\ UNCHANGED <<board, agents, turns, phase, sy, lock, stable, engine>>

\* Any statement of the /end request in slot t.
E_Step(t) == E_Acquire(t) \/ E_Field(t) \/ E_Release(t) \/ E_ResetPhase(t) \/ E_ResetEsc(t)

\* ------------------------------------------------------------------------
\* sample_agent.py: the simple variant. Its sync handler is the same code as
\* agent.py's; its /send-move filters safe moves and may ask for a boost; its
\* /end resets nothing. Its send_move holds game_lock while it picks the
\* agent objects and reads boosts_remaining, and reads the trails after that.
\* ------------------------------------------------------------------------
BOOST_SPACE == 10

\* opp_next: the four cells around the opponent's head
OppNext(opp_head, b) == {Step(opp_head, Direction[i], b.width, b.height) : i \in 1 .. 4}

\* safe_moves: the non-reversing directions whose target is on no trail and
\* not next to the opponent's head
SafeMoves(head, my_trail, opp_trail, opp_head, cur_dir, b) ==
  LET safe(d) ==
        LET n == Step(head, d, b.width, b.height) IN
        /\ n \notin Range(my_trail)
        /\ n \notin Range(opp_trail)
        /\ (opp_head # <<>> => n \notin OppNext(opp_head, b))
  IN SelectSeq(Candidates(cur_dir), safe)

\* Variant: the boost is asked for on space alone, boosts_remaining unread.
UseBoost_Unmetered(boosts_remaining, max_space) == max_space > BOOST_SPACE

\* line 111: use_boost = boosts_remaining > 0 and max_space > 10
UseBoost(boosts_remaining, max_space) == boosts_remaining > 0 /\ max_space > BOOST_SPACE

SampleAnswer(t, status, d, boost) ==
  [op |-> "move", status |-> status, move |-> d, player |-> mv[t].player, from |-> mv[t].from, boost |-> boost]

\* sample_agent.send_move, lines 64-66: the request arrives
SM_Begin(t, p) ==
  /\ mv[t].pc = "idle"
  /\ mv' = [mv EXCEPT ![t] = [MvIdle EXCEPT !.pc = "s_lock", !.player = p, !.from = phase]]
  /\ UNCHANGED <<board, agents, turns, phase, escape_dx, resp, sy, en, lock, stable, engine, attrs>>

\* lines 67-72: `with game_lock:` picks the agents and reads boosts_remaining
SM_Lock(t) ==
  /\ mv[t].pc = "s_lock"
  /\ lock = "free"
  /\ mv' = [mv EXCEPT ![t].pc = "s_head", ![t].boosts = agents[mv[t].player].boosts_remaining]
  /\ UNCHANGED <<board, agents, turns, phase, escape_dx, resp, sy, en, lock, stable, engine, attrs>>

\* line 75: head = my_agent.trail[-1]; IndexError on an empty trail
SM_Head(t) ==
  /\ mv[t].pc = "s_head"
  /\ IF agents[mv[t].player].trail = <<>>
     THEN Return(t, SampleAnswer(t, 500, "None", FALSE))
     ELSE /\ mv' = [mv EXCEPT ![t].pc = "s_opp", ![t].head = Head_(agents[mv[t].player].trail)]
          /\ UNCHANGED resp
  /\ UNCHANGED <<board, agents, turns, phase, escape_dx, sy, en, lock, stable, engine, attrs>>

\* line 76, the condition: opponent.alive; a dead opponent has no head.
\* Lines 77-79 follow whichever way line 76 ends: the directions but the
\* reverse of the heading.
SM_OppAlive(t) ==
  /\ mv[t].pc = "s_opp"
  /\ mv' = IF agents[Other(mv[t].player)].alive
           THEN [mv EXCEPT ![t].pc = "s_opp_trail"]
           ELSE [mv EXCEPT ![t].pc = "s_filter", ![t].opp_head = <<>>,
                           ![t].scan = Candidates(agents[mv[t].player].direction)]
  /\ UNCHANGED <<board, agents, turns, phase, escape_dx, resp, sy, en, lock, stable, engine, attrs>>

\* line 76, the value: opponent.trail[-1]; IndexError on an empty trail
SM_OppTrail(t) ==
  LET opponent == agents[Other(mv[t].player)] IN
  /\ mv[t].pc = "s_opp_trail"
  /\ IF opponent.trail = <<>>
     THEN Return(t, SampleAnswer(t, 500, "None", FALSE))
     ELSE /\ mv' = [mv EXCEPT ![t].pc = "s_filter", ![t].opp_head = Head_(opponent.trail),
                              ![t].scan = Candidates(agents[mv[t].player].direction)]
          /\ UNCHANGED resp
  /\ UNCHANGED <<board, agents, turns, phase, escape_dx, sy, en, lock, stable, engine, attrs>>

\* The loop of lines 82-93 is over: with no safe move the heading is chosen
\* (line 96), else the evaluation loop starts with max_space = -1 and the
\* first safe move chosen (lines 99-100).
AfterFilter(r) ==
  IF r.scan # <<>> THEN [r EXCEPT !.pc = "s_filter"]
  ELSE IF r.safe_moves = <<>> THEN [r EXCEPT !.pc = "s_boost"]
  ELSE [r EXCEPT !.pc = "s_eval", !.scan = r.safe_moves, !.max_space = -1,
                 !.chosen = r.safe_moves[1]]

\* line 85, left operand: is the target of the next direction on my_agent.trail
SM_Filter(t) ==
  LET n == Step(mv[t].head, Head(mv[t].scan), board.width, board.height) IN
  /\ mv[t].pc = "s_filter"
  /\ mv[t].scan # <<>>
  /\ mv' = [mv EXCEPT ![t] =
              IF n \in Range(agents[mv[t].player].trail)
              THEN AfterFilter([mv[t] EXCEPT !.scan = Tail(mv[t].scan)])
              ELSE [mv[t] EXCEPT !.pc = "s_filter_opp"]]
  /\ UNCHANGED <<board, agents, turns, phase, escape_dx, resp, sy, en, lock, stable, engine, attrs>>

\* line 85, right operand, and lines 87-93: is it on opponent.trail, is it
\* next to the opponent's head; a direction that passes joins safe_moves
SM_FilterOpp(t) ==
  LET d == Head(mv[t].scan)
      n == Step(mv[t].head, d, board.width, board.height)
      safe == /\ n \notin Range(agents[Other(mv[t].player)].trail)
              /\ (mv[t].opp_head # <<>> => n \notin OppNext(mv[t].opp_head, board))
  IN
  /\ mv[t].pc = "s_filter_opp"
  /\ mv' = [mv EXCEPT ![t] =
              AfterFilter([mv[t] EXCEPT !.scan = Tail(mv[t].scan),
                                        !.safe_moves = IF safe THEN Append(mv[t].safe_moves, d)
                                                       ELSE mv[t].safe_moves])]
  /\ UNCHANGED <<board, agents, turns, phase, escape_dx, resp, sy, en, lock, stable, engine, attrs>>

\* line 104, left operand: set(my_agent.trail)
SM_Eval(t) ==
  /\ mv[t].pc = "s_eval"
  /\ mv' = [mv EXCEPT ![t].pc = "s_eval_opp", ![t].my_trail = agents[mv[t].player].trail]
  /\ UNCHANGED <<board, agents, turns, phase, escape_dx, resp, sy, en, lock, stable, engine, attrs>>

\* line 104, right operand, and lines 105-108: the space of the next safe
\* move; a strictly larger one replaces the chosen move
SM_EvalOpp(t) ==
  LET d == Head(mv[t].scan)
      occupied == Range(mv[t].my_trail) \cup Range(agents[Other(mv[t].player)].trail)
      space == flood_fill_space(Step(mv[t].head, d, board.width, board.height), board, occupied)
      better == space > mv[t].max_space
  IN
  /\ mv[t].pc = "s_eval_opp"
  /\ mv' = [mv EXCEPT ![t].pc = IF Len(mv[t].scan) = 1 THEN "s_boost" ELSE "s_eval",
                      ![t].scan = Tail(mv[t].scan),
                      ![t].my_trail = <<>>,
                      ![t].max_space = IF better THEN space ELSE mv[t].max_space,
                      ![t].chosen = IF better THEN d ELSE mv[t].chosen]
  /\ UNCHANGED <<board, agents, turns, phase, escape_dx, resp, sy, en, lock, stable, engine, attrs>>

\* lines 111-113: the boost test and the answer. With no safe move the local
\* max_space was never assigned, and reading it (only done when
\* boosts_remaining > 0) raises UnboundLocalError.
SM_Boost(t) ==
  /\ mv[t].pc = "s_boost"
  /\ IF mv[t].safe_moves = <<>>
     THEN (IF mv[t].boosts > 0
           THEN Return(t, SampleAnswer(t, 500, "None", FALSE))
           ELSE Return(t, SampleAnswer(t, 200, agents[mv[t].player].direction, FALSE)))
     ELSE Return(t, SampleAnswer(t, 200, mv[t].chosen, UseBoost(mv[t].boosts, mv[t].max_space)))
  /\ UNCHANGED <<board, agents, turns, phase, escape_dx, sy, en, lock, stable, engine, attrs>>

\* Any statement of the /send-move request of sample_agent.py in slot t.
SM_Step(t) ==
  \/ SM_Lock(t) \/ SM_Head(t) \/ SM_OppAlive(t) \/ SM_OppTrail(t) \/ SM_Filter(t) \/ SM_FilterOpp(t)
  \/ SM_Eval(t) \/ SM_EvalOpp(t) \/ SM_Boost(t)

\* POST /end of sample_agent.py, lines 128-133: the request arrives; without
\* a body it is answered at once
SE_Begin(t, data) ==
  /\ en[t].pc = "idle"
  /\ IF NoData(data)
     THEN /\ resp' = EndResp(200, phase)
          /\ UNCHANGED en
     ELSE /\ en' = [en EXCEPT ![t] = [pc |-> "lock", data |-> data, todo |-> PresentFields(data),
                                      from |-> phase, before |-> Game]]
          /\ UNCHANGED resp
  /\ UNCHANGED <<board, agents, turns, phase, escape_dx, mv, sy, lock, stable, engine, attrs>>

\* the end of the `with` block called by sample_agent.end_game, and its answer
SE_Release(t) ==
  /\ en[t].pc = "fields"
  /\ en[t].todo = <<>>
  /\ lock' = "free"
  /\ stable' = Released
  /\ en' = [en EXCEPT ![t] = SyIdle]
  /\ resp' = EndResp(200, en[t].from)
  /\ UNCHANGED <<board, agents, turns, phase, escape_dx, mv, sy, engine, attrs>>

\* Any statement of the /end request of sample_agent.py in slot t.
SE_Step(t) == E_Acquire(t) \/ E_Field(t) \/ SE_Release(t)

\* ------------------------------------------------------------------------
\* The state after the process has started.
\* ------------------------------------------------------------------------
InitGame ==
  /\ board = NewBoard
  /\ agents = [i \in {1, 2} |-> NewAgent(i)]
  /\ turns = 0

\* send_move.phase / send_move.escape_dx do not exist when the process
\* starts: the first move query or the first match end creates them, with
\* the values the variables stand at until then.
InitPhase ==
  /\ phase = "floodfill"
  /\ escape_dx = 0
  /\ attrs = {}

NoAnswer ==
  [op |-> "none", status |-> 0, move |-> "None", player |-> 0, from |-> "floodfill", boost |-> FALSE]

InitRequests ==
  /\ resp = NoAnswer
  /\ mv = NoRequest
  /\ sy = NoSync
  /\ en = NoSync
  /\ lock = "free"
  /\ stable = {}
  /\ engine = 0

Init == InitGame /\ InitPhase /\ InitRequests

\* ------------------------------------------------------------------------
\* agent.py as the game engine drives it: the engine sends a request after
\* the answer to the one before, so a request arrives when none is under way
\* and its statements run to its answer.
\* ------------------------------------------------------------------------
Players == {1, 2}

BoardCells == CellsOf(W, H)

\* Trails a sync reports for agent i: its start cell alone, or its start cell
\* followed by the cell its head is on.
TrailInputs(i) == {<<StartPos(i)>>} \cup {<<StartPos(i), c>> : c \in BoardCells}

\* Grids a sync reports: nothing marked, or everything.
GridInputs ==
  {[readable |-> TRUE, marked |-> {}], [readable |-> TRUE, marked |-> BoardCells]}

EmptyBody == <<>>


Next ==
  \/ Quiet /\ \E p \in Players : M_Begin(1, p)
  \/ M_Step(1)
  \/ Quiet /\ \E t \in TrailInputs(1) \cup {<<>>} : S_Begin(1, [agent1_trail |-> t])
  \/ Quiet /\ \E t \in TrailInputs(2) \cup {<<>>} : S_Begin(1, [agent2_trail |-> t])
  \/ Quiet /\ \E g \in GridInputs : S_Begin(1, [board |-> g])
  \/ Quiet /\ \E a \in BOOLEAN : S_Begin(1, [agent2_alive |-> JBool(a)])
  \/ Quiet /\ S_Begin(1, EmptyBody)
  \/ S_Step(1)
  \/ Quiet /\ E_Begin(1, EmptyBody)
  \/ Quiet /\ E_Begin(1, [agent2_alive |-> JBool(TRUE)])
  \/ Quiet /\ E_Begin(1, [turn_count |-> JBadStr])
  \/ E_Step(1)

Spec == Init /\ [][Next]_vars

\* ------------------------------------------------------------------------
\* The decision of send_move over the states a match can be in: any pair of
\* reported trails, any reported grid, either opponent alive flag, and any
\* phase with an escape bias that phase can carry. The move queries are
\* served one after the other.
\* ------------------------------------------------------------------------
\* Grids of the decision model: also everything but one cell marked, and a
\* grid that cannot be indexed.
DecideGrids ==
  GridInputs \cup {[readable |-> FALSE, marked |-> {}]}
  \cup {[readable |-> TRUE, marked |-> BoardCells \ {c}] : c \in BoardCells}

PhaseStates ==
  {<<"floodfill", 0>>} \cup ({"panic", "post_corridor_fill"} \X {-1, 0, 1})

InitDecide ==
  /\ board \in {[NewBoard EXCEPT !.readable = g.readable, !.marked = g.marked] : g \in DecideGrids}
  /\ agents \in {[i \in {1, 2} |->
                    [NewAgent(i) EXCEPT !.trail = IF i = 1 THEN t1 ELSE t2,
                                        !.alive = IF i = 1 THEN TRUE ELSE a]] :
                  t1 \in TrailInputs(1), t2 \in TrailInputs(2), a \in BOOLEAN}
  /\ turns = 0
  /\ \E ps \in PhaseStates : phase = ps[1] /\ escape_dx = ps[2]
  /\ attrs = IF phase = "floodfill" THEN {} ELSE Attrs
  /\ InitRequests

NextDecide ==
  \/ Quiet /\ \E p \in Players : M_Begin(1, p)
  \/ M_Step(1)

SpecDecide == InitDecide /\ [][NextDecide]_vars

\* ------------------------------------------------------------------------
\* sample_agent.py as the engine drives it, on a board large enough for
\* space scores on both sides of BOOST_SPACE.
\* ------------------------------------------------------------------------
SampleW == W + 2
SampleH == H + 1
SampleCells == CellsOf(SampleW, SampleH)
SampleTrails(i) == {<<StartPosOn(i, SampleW, SampleH), c>> : c \in SampleCells}
BoostInputs == {JInt(0), JNumStr(3)}

InitSample ==
  /\ board = NewBoardOn(SampleW, SampleH)
  /\ agents = [i \in {1, 2} |-> NewAgentOn(i, SampleW, SampleH)]
  /\ turns = 0
  /\ InitPhase
  /\ InitRequests

NextSample ==
  \/ Quiet /\ \E p \in Players : SM_Begin(1, p)
  \/ SM_Step(1)
  \/ Quiet /\ \E t \in SampleTrails(1) : S_Begin(1, [agent1_trail |-> t])
  \/ Quiet /\ \E t \in SampleTrails(2) : S_Begin(1, [agent2_trail |-> t])
  \/ Quiet /\ \E n \in BoostInputs : S_Begin(1, [agent1_boosts |-> n])
  \/ Quiet /\ \E a \in BOOLEAN : S_Begin(1, [agent2_alive |-> JBool(a)])
  \/ S_Step(1)
  \/ Quiet /\ SE_Begin(1, EmptyBody)
  \/ Quiet /\ SE_Begin(1, [agent2_alive |-> JBool(TRUE)])
  \/ SE_Step(1)

SpecSample == InitSample /\ [][NextSample]_vars

\* ------------------------------------------------------------------------
\* Candidate generation over boards of every size up to W x H (a board one
\* cell wide or high wraps a step back onto the head), any head, any heading
\* of agent 1; agent 1's trail is its head alone, or starts in the corner
\* (0, 0). Both variants answer move queries.
\* ------------------------------------------------------------------------
InitBoards ==
  /\ \E w \in 1 .. W, h \in 1 .. H :
       /\ board = [NewBoardOn(w, h) EXCEPT !.marked = {}]
       /\ agents \in {[i \in {1, 2} |->
                         [NewAgentOn(i, w, h) EXCEPT !.trail = IF i = 1 THEN o1 \o <<c1>> ELSE <<c2>>,
                                                     !.direction = IF i = 1 THEN d1 ELSE StartDir(2)]] :
                       o1 \in {<<>>, <<(<<0, 0>>)>>}, c1 \in CellsOf(w, h), c2 \in CellsOf(w, h),
                       d1 \in DirNames}
  /\ turns = 0
  /\ InitPhase
  /\ InitRequests

NextBoards ==
  \/ Quiet /\ \E p \in Players : M_Begin(1, p)
  \/ M_Step(1)
  \/ Quiet /\ \E p \in Players : SM_Begin(1, p)
  \/ SM_Step(1)

SpecBoards == InitBoards /\ [][NextBoards]_vars

\* ------------------------------------------------------------------------
\* State syncs with payloads of up to MaxFields fields. Every field has one
\* well-formed value that differs from the start value; the fields the code
\* converts with int() also have a string that is no number.
\* ------------------------------------------------------------------------
MaxFields == 2

IntFields == {"agent1_length", "agent2_length", "agent1_boosts", "agent2_boosts", "turn_count"}

\* Value number k of field f.
FieldValue(f, k) ==
  CASE f = "board" -> [readable |-> TRUE, marked |-> {}]
    [] f = "agent1_trail" -> <<StartPos(1)>>
    [] f = "agent2_trail" -> <<StartPos(2)>>
    [] f \in {"agent1_alive", "agent2_alive"} -> JInt(0)
    [] f \in {"agent1_length", "agent2_length"} -> IF k = 1 THEN JNumStr(3) ELSE JBadStr
    [] f \in {"agent1_boosts", "agent2_boosts"} -> IF k = 1 THEN JInt(1) ELSE JBadStr
    [] f = "turn_count" -> IF k = 1 THEN JInt(1) ELSE JBadStr

\* The payloads over the field set F.
PayloadsOver(F) ==
  {[f \in F |-> FieldValue(f, pick[f])] :
     pick \in {q \in [F -> {1, 2}] : \A f \in F : q[f] = 2 => f \in IntFields}}

FieldSets == {F \in SUBSET Fields : Cardinality(F) <= MaxFields}

NextSync ==
  \/ Quiet /\ \E F \in FieldSets : \E data \in PayloadsOver(F) : S_Begin(1, data)
  \/ S_Step(1)

SpecSync == Init /\ [][NextSync]_vars

\* ------------------------------------------------------------------------
\* The requests interleaved, as Flask's threads run them: a request arrives
\* whatever else is under way, and any request under way takes its next
\* statement.
\*
\* A move query against state syncs, any number of them one after the other
\* while the query is under way (the whole update holds game_lock, so a
\* second sync under way would only wait for the first). `stable` starts
\* with the first trail pair and collects the pair left by every update.
\* ------------------------------------------------------------------------
\* Syncs that report both trails (both of one cell, or agent 1's head in
\* column 0 of its corridor row and agent 2 as at the start), and the sync
\* that reports agent 2 dead.
ConcSyncs ==
  {[agent1_trail |-> <<StartPos(1)>>, agent2_trail |-> <<StartPos(2)>>],
   [agent1_trail |-> <<StartPos(1), <<0, CorridorY(StartPos(1), NewBoard)>>>>,
    agent2_trail |-> StartTrail(2)],
   [agent2_alive |-> JBool(FALSE)]}

InitConc ==
  /\ InitGame
  /\ InitPhase
  /\ resp = NoAnswer
  /\ mv = NoRequest
  /\ sy = NoSync
  /\ en = NoSync
  /\ lock = "free"
  /\ stable = {TrailPair}
  /\ engine = 0

NextConc ==
  \/ \E p \in Players : M_Begin(1, p)
  \/ M_Step(1)
  \/ \E data \in ConcSyncs : S_Begin(1, data)
  \/ S_Step(1)

SpecConc == InitConc /\ [][NextConc]_vars

\* ------------------------------------------------------------------------
\* Move queries against each other and against a match reset: as many
\* queries of agent 1 under way as there are slots. Agent 2's head is on
\* agent 1's corridor row in agent 1's exit column, a column from agent 1's
\* head. The slots are interchangeable, so a query that arrives takes the
\* first idle one.
\* ------------------------------------------------------------------------
InitReset ==
  /\ board = NewBoard
  /\ agents = [i \in {1, 2} |->
                 [NewAgent(i) EXCEPT !.trail =
                    IF i = 1 THEN StartTrail(1)
                    ELSE <<StartPos(2), <<StartPos(1)[1], CorridorY(StartPos(1), NewBoard)>>>>]]
  /\ turns = 0
  /\ InitPhase
  /\ InitRequests

NextReset ==
  \/ \E t \in Threads : FirstIdle(mv, t) /\ M_Begin(t, 1)
  \/ \E t \in Threads : M_Step(t)
  \/ E_Begin(1, EmptyBody)
  \/ E_Begin(1, [agent2_alive |-> JBool(TRUE)])
  \/ E_Step(1)

SpecReset == InitReset /\ [][NextReset]_vars

\* ------------------------------------------------------------------------
\* sample_agent.py's move query against state syncs that move both heads or
\* report agent 2 dead.
\* ------------------------------------------------------------------------
SampleSyncs ==
  {[agent1_trail |-> <<StartPosOn(1, SampleW, SampleH), c>>,
    agent2_trail |-> <<StartPosOn(2, SampleW, SampleH), c>>] :
     c \in {<<0, 0>>, <<1, 1>>}}
  \cup {[agent2_alive |-> JBool(FALSE)]}

NextSampleConc ==
  \/ \E p \in Players : SM_Begin(1, p)
  \/ SM_Step(1)
  \/ \E data \in SampleSyncs : S_Begin(1, data)
  \/ S_Step(1)

SpecSampleConc == InitSample /\ [][NextSampleConc]_vars

\* ========================================================================
\* Properties
\* ========================================================================
Rank(ph) ==
  CASE ph = "floodfill" -> 0
    [] ph = "panic" -> 1
    [] ph = "post_corridor_fill" -> 2

\* What the move query answered last was computed from, once it is answered
\* and no request is under way: the trails and the board are written by syncs
\* only, so they are still the ones the query read.
Me == agents[resp.player]
Opp == agents[Other(resp.player)]
MyHead == Head_(Me.trail)
MyStart == Me.trail[1]
TheirHead == OppHead(Opp)
Occupied == Range(Me.trail) \cup Range(Opp.trail)
Options == MoveOptions(MyHead, MyStart, Me.direction, board, Occupied)
Suicidal(c) == is_suicidal(MyHead, c, board, Occupied)
Target(d) == Step(MyHead, d, board.width, board.height)
Moved == Quiet /\ resp.op = "move" /\ resp.status = 200

\* C1: the phase only advances floodfill -> panic -> post_corridor_fill; a
\* step that lowers it is the phase assignment of a match-end reset.
C1_PhaseOneWay ==
  [][Rank(phase') < Rank(phase) => \E t \in Threads : en[t].pc = "reset_phase"]_vars

\* A move query took the phase from panic to post_corridor_fill.
C1_Witness == Moved /\ resp.from = "panic" /\ phase = "post_corridor_fill"

\* The case of C2: a move query answered in floodfill with the living
\* opponent's head at most one column away.
C2_Case ==
  /\ Moved
  /\ resp.from = "floodfill"
  /\ Opp.alive
  /\ Abs(MyHead[1] - TheirHead[1]) <= 1

\* C2 as claimed: after such a move query the phase is panic.
C2_PanicAfterTrigger == C2_Case => phase = "panic"

\* The head is on the corridor exit: corridor row, exit column.
C2_AtExit ==
  /\ MyHead[2] = (MyStart[2] + (board.height \div 2)) % board.height
  /\ MyHead[1] = MyStart[1]

\* The head is off the corridor row and the opponent's head is on it, in the
\* columns from the exit column up to (not including) the head's column.
C2_Infiltrated ==
  LET row == (MyStart[2] + (board.height \div 2)) % board.height IN
  /\ MyHead[2] # row
  /\ TheirHead[2] = row
  /\ \/ (MyHead[1] < TheirHead[1] /\ TheirHead[1] <= MyStart[1])
     \/ (MyStart[1] <= TheirHead[1] /\ TheirHead[1] < MyHead[1])

\* C2 amended: after such a move query the phase has left floodfill; it is
\* panic unless the same query already ends the escape (head on the corridor
\* exit, or corridor infiltrated), and then it is post_corridor_fill.
C2_LeavesOpenPlay ==
  C2_Case => phase = IF C2_AtExit \/ C2_Infiltrated THEN "post_corridor_fill" ELSE "panic"

\* The trigger fired with the opponent exactly one column away and the phase is panic.
C2_Witness == C2_Case /\ Abs(MyHead[1] - TheirHead[1]) = 1 /\ phase = "panic"

\* C3 as claimed: after a match reset issued in panic or post_corridor_fill the
\* phase is floodfill and the escape bias is 0.
C3_ResetClears ==
  (Quiet /\ resp.op = "end" /\ resp.from \in {"panic", "post_corridor_fill"})
    => (phase = "floodfill" /\ escape_dx = 0)

\* C4: when some candidate's target is not suicidal, the answered direction's
\* target is not suicidal.
C4_SafeWhenPossible ==
  (Moved /\ \E i \in 1 .. Len(Options) : ~Suicidal(Options[i][3]))
    => ~Suicidal(Target(resp.move))

\* A move query answered with a safe candidate although the best-scored
\* candidate was suicidal.
C4_Witness ==
  /\ Moved
  /\ Suicidal(SortDesc(Options)[1][3])
  /\ \E i \in 1 .. Len(Options) : ~Suicidal(Options[i][3])
  /\ ~Suicidal(Target(resp.move))

\* C5 as claimed: when every candidate's target is suicidal the answer is the
\* candidate with the largest space score.
C5_LastResort ==
  (Moved /\ Options # <<>> /\ \A i \in 1 .. Len(Options) : Suicidal(Options[i][3]))
    => /\ \E i \in 1 .. Len(Options) : Options[i][2] = resp.move
       /\ \A i \in 1 .. Len(Options) :
            Options[i][2] = resp.move => \A j \in 1 .. Len(Options) : Options[j][1] <= Options[i][1]

\* C7: a target in the explicit trail set is suicidal whatever the board
\* says, from every head. Stated on the states no request is under way in:
\* the move queries of this specification change neither board nor trails.
C7_TrailSetDecides ==
  Quiet =>
    \A p \in Players :
      LET occ == Range(agents[p].trail) \cup Range(agents[Other(p)].trail) IN
      \A head \in BoardCells : \A target \in occ :
        /\ is_suicidal(head, target, board, occ)
        /\ is_suicidal(head, target, board, occ) = is_suicidal(Head_(agents[p].trail), target, board, occ)

\* A move query was answered on a board that reports EMPTY for a trail cell.
C7_Witness ==
  /\ Moved
  /\ board.readable
  /\ \E target \in Occupied : get_cell_state(board, target) = EMPTY

\* The case of C6: the simple variant answered a move query in which no
\* direction survives the safe-move filter.
C6_Case ==
  /\ Quiet
  /\ resp.op = "move"
  /\ SafeMoves(MyHead, Me.trail, Opp.trail, TheirHead, Me.direction, board) = <<>>

\* C6 as claimed: such a move query is answered with the current heading,
\* whatever boosts_remaining is.
C6_KeepsHeading == C6_Case => (resp.status = 200 /\ resp.move = Me.direction)

\* C8: the candidate list a move query has built never holds the reverse of
\* the heading nor a candidate whose wrapped target is the head cell
\* (move_options of agent.py; the directions and safe_moves of sample_agent.py).
C8_Candidates ==
  \A t \in Threads :
    mv[t].head # <<>> =>
      LET head == mv[t].head
          cur_dir == agents[mv[t].player].direction
          options == mv[t].options
          safe_moves == mv[t].safe_moves
      IN /\ \A i \in 1 .. Len(options) :
              /\ options[i][2] # Reverse(cur_dir)
              /\ options[i][3] # head
              /\ options[i][3] = Step(head, options[i][2], board.width, board.height)
         /\ \A i \in 1 .. Len(safe_moves) :
              /\ safe_moves[i] # Reverse(cur_dir)
              /\ Step(head, safe_moves[i], board.width, board.height) # head
         /\ mv[t].pc \in {"s_filter", "s_filter_opp"} =>
              \A i \in 1 .. Len(mv[t].scan) : mv[t].scan[i] # Reverse(cur_dir)

\* A move query answered on a board one cell wide by an agent heading UP: the
\* LEFT and RIGHT steps wrap onto the head, DOWN is the reverse, UP is left.
C8_Witness ==
  /\ Moved
  /\ board.width = 1
  /\ Me.direction = "UP"
  /\ Len(Options) = 1
  /\ resp.move = "UP"

\* C10 as claimed: a sync that is rejected or fails leaves board, agents and
\* turn counter as they were when it arrived.
C10_RejectedSyncLeavesState ==
  [][/\ (Quiet /\ Quiet' /\ resp'.op = "state" /\ resp'.status # 200)
          => UNCHANGED <<board, agents, turns>>
     /\ \A t \in Threads :
          (sy[t].pc # "idle" /\ sy'[t].pc = "idle" /\ resp'.status # 200)
            => <<board', agents', turns'>> = sy[t].before]_vars

\* C9 as claimed: a decision never works on a mix of pre-sync and post-sync
\* values: the two trails it has read into its occupied set were together the
\* shared state at some instant no sync was under way.
C9_NoMixedRead ==
  \A t \in Threads :
    mv[t].pc = "options" =>
      (IF mv[t].player = 1 THEN <<mv[t].my_trail, mv[t].opp_trail>>
       ELSE <<mv[t].opp_trail, mv[t].my_trail>>) \in stable

\* The internal value a sync field is stored in, read from the game g.
Stored(f, b, ag, tn) ==
  CASE f = "board" -> [readable |-> b.readable, marked |-> b.marked]
    [] f = "agent1_trail" -> ag[1].trail
    [] f = "agent2_trail" -> ag[2].trail
    [] f = "agent1_length" -> ag[1].length
    [] f = "agent2_length" -> ag[2].length
    [] f = "agent1_alive" -> ag[1].alive
    [] f = "agent2_alive" -> ag[2].alive
    [] f = "agent1_boosts" -> ag[1].boosts_remaining
    [] f = "agent2_boosts" -> ag[2].boosts_remaining
    [] f = "turn_count" -> tn

\* The stored value x is the value v the payload carries for field f: the same
\* grid or trail, the number v denotes, the truth value of v.
Carries(f, v, x) ==
  IF f \in {"board", "agent1_trail", "agent2_trail"} THEN x = v
  ELSE IF f \in {"agent1_alive", "agent2_alive"} THEN x = BoolOf(v)
  ELSE ~IntRaises(v) /\ x = IntOf(v)

\* C11 as claimed: after a sync with a non-empty payload every absent field's
\* value is unchanged, every present field's value is the payload's, and phase
\* and escape bias are unchanged.
C11_PartialUpdate ==
  [][\A t \in Threads :
       /\ (sy[t].pc = "fields" /\ sy'[t].pc = "idle") =>
            LET data == sy[t].data
                was == sy[t].before
            IN /\ \A f \in Fields \ DOMAIN data :
                    Stored(f, board', agents', turns') = Stored(f, was[1], was[2], was[3])
               /\ \A f \in DOMAIN data : Carries(f, data[f], Stored(f, board', agents', turns'))
       /\ (sy'[t] # sy[t]) => UNCHANGED <<phase, escape_dx>>]_vars

\* ------------------------------------------------------------------------
\* flood_fill_space on its own: every board of at most MaxArea cells, every
\* start cell, an occupied set that grows cell by cell from any first set.
\* mv holds the arguments of the call, its result, and the result for the
\* first occupied set.
\* ------------------------------------------------------------------------
MaxArea == 8

FloodSizes == {s \in (1 .. W) \X (1 .. H) : s[1] * s[2] <= MaxArea}

\* The loop of flood_fill_space with the neighbours taken in the order `order`
\* (a permutation of the indices of Direction) instead of the enum's order.
RECURSIVE FloodLoopIn(_, _, _, _, _, _)
FloodLoopIn(order, queue, visited, occupied, w, h) ==
  IF queue = <<>> THEN Cardinality(visited)
  ELSE LET c == Head(queue) IN
    IF c \in visited \/ c \in occupied
    THEN FloodLoopIn(order, Tail(queue), visited, occupied, w, h)
    ELSE LET v2 == visited \cup {c}
             nb == [i \in 1 .. 4 |-> Step(c, Direction[order[i]], w, h)]
             ok(n) == n \notin v2 /\ n \notin occupied
         IN FloodLoopIn(order, Tail(queue) \o SelectSeq(nb, ok), v2, occupied, w, h)

Orders == {o \in [1 .. 4 -> 1 .. 4] : \A i, j \in 1 .. 4 : o[i] = o[j] => i = j}

\* Two cells of the torus are 4-adjacent.
Adjacent(a, c, w, h) ==
  \/ a[2] = c[2] /\ (a[1] - c[1]) % w \in {1 % w, (w - 1) % w}
  \/ a[1] = c[1] /\ (a[2] - c[2]) % h \in {1 % h, (h - 1) % h}

\* The 4-connected component of free cells around the set S.
RECURSIVE Grow(_, _, _, _)
Grow(S, occupied, w, h) ==
  LET N == S \cup {n \in CellsOf(w, h) \ occupied : \E c \in S : Adjacent(c, n, w, h)}
  IN IF N = S THEN S ELSE Grow(N, occupied, w, h)

Component(pos, occupied, w, h) ==
  IF pos \in occupied THEN {} ELSE Grow({pos}, occupied, w, h)

InitFlood ==
  /\ \E s \in FloodSizes :
       /\ board = [NewBoardOn(s[1], s[2]) EXCEPT !.marked = {}]
       /\ agents = [i \in {1, 2} |-> NewAgentOn(i, s[1], s[2])]
       /\ \E pos \in CellsOf(s[1], s[2]) : \E A \in SUBSET CellsOf(s[1], s[2]) :
            mv = [pc |-> "flood", pos |-> pos, occupied |-> A,
                  space |-> flood_fill_space(pos, board, A),
                  base |-> flood_fill_space(pos, board, A)]
  /\ turns = 0
  /\ InitPhase
  /\ resp = NoAnswer
  /\ sy = NoSync
  /\ en = NoSync
  /\ lock = "free"
  /\ stable = {}
  /\ engine = 0

\* One more cell is occupied and the space is computed again from the same start.
Flood_Occupy(c) ==
  /\ mv.pc = "flood"
  /\ c \notin mv.occupied
  /\ mv' = [mv EXCEPT !.occupied = mv.occupied \cup {c},
                      !.space = flood_fill_space(mv.pos, board, mv.occupied \cup {c})]
  /\ UNCHANGED <<board, agents, turns, phase, escape_dx, resp, sy, en, lock, stable, engine, attrs>>

NextFlood == \E c \in Cells : Flood_Occupy(c)

SpecFlood == InitFlood /\ [][NextFlood]_vars

\* C12: the space for an occupied set is at most the space for any subset of
\* it from the same start; it is the size of the start's 4-connected toroidal
\* component of free cells (0 when the start is occupied), in whichever order
\* the neighbours are visited.
C12_FloodMonotone ==
  mv.pc = "flood" =>
    /\ mv.space <= mv.base
    /\ mv.space = Cardinality(Component(mv.pos, mv.occupied, board.width, board.height))
    /\ (mv.pos \in mv.occupied => mv.space = 0)
    /\ \A o \in Orders :
         FloodLoopIn(o, <<mv.pos>>, {}, mv.occupied, board.width, board.height) = mv.space

\* The occupied set grew, the space shrank but is not 0, and free cells are
\* left that the start cannot reach.
C12_Witness ==
  /\ mv.pc = "flood"
  /\ 0 < mv.space
  /\ mv.space < mv.base
  /\ mv.space + Cardinality(mv.occupied) < board.width * board.height

\* ------------------------------------------------------------------------
\* Open play: the states of the decision model, and the 10 x 10 scenario
\* (agent 1 with the single trail cell (5, 5) heading RIGHT, agent 2 at
\* (0, 0)) with the grid empty or holding the two trail cells, the opponent
\* alive or not.
\* ------------------------------------------------------------------------
ScenarioAgents(a) ==
  [i \in {1, 2} |->
     [NewAgentOn(i, 10, 10) EXCEPT !.trail = IF i = 1 THEN <<(<<5, 5>>)>> ELSE <<(<<0, 0>>)>>,
                                   !.alive = IF i = 1 THEN TRUE ELSE a]]

InitScenario ==
  /\ board \in {[NewBoardOn(10, 10) EXCEPT !.marked = m] : m \in {{}, {<<5, 5>>, <<0, 0>>}}}
  /\ agents \in {ScenarioAgents(a) : a \in BOOLEAN}
  /\ turns = 0
  /\ InitPhase
  /\ InitRequests

InitOpenPlay == InitDecide \/ InitScenario

SpecOpenPlay == InitOpenPlay /\ [][NextDecide]_vars

\* The candidate of the answered direction.
Picked == CHOOSE i \in 1 .. Len(Options) : Options[i][2] = resp.move

\* A move query answered by the floodfill branch.
OpenPlayAnswer == Moved /\ resp.from = "floodfill" /\ phase = "floodfill"

\* C13: a move query answered in floodfill returns, when some candidate is not
\* suicidal, a non-suicidal candidate whose space score no non-suicidal
\* candidate exceeds; in the 10 x 10 scenario agent 1 is answered UP, DOWN or
\* RIGHT, never LEFT, with the largest score of all candidates.
C13_OpenPlayMaximizes ==
  /\ (OpenPlayAnswer /\ \E i \in 1 .. Len(Options) : ~Suicidal(Options[i][3]))
       => /\ \E i \in 1 .. Len(Options) : Options[i][2] = resp.move
          /\ ~Suicidal(Options[Picked][3])
          /\ \A j \in 1 .. Len(Options) :
               ~Suicidal(Options[j][3]) => Options[j][1] <= Options[Picked][1]
  /\ (Moved /\ board.width = 10 /\ resp.player = 1)
       => /\ phase = "floodfill"
          /\ resp.move \in {"UP", "DOWN", "RIGHT"}
          /\ \A j \in 1 .. Len(Options) : Options[j][1] <= Options[Picked][1]

\* A floodfill answer that is not the first non-suicidal candidate of the
\* enum order: a later one has the strictly larger score.
C13_Witness ==
  /\ OpenPlayAnswer
  /\ \E i \in 1 .. Len(Options) :
       /\ ~Suicidal(Options[i][3])
       /\ i < Picked
       /\ Options[i][1] < Options[Picked][1]

\* The space score of the answered direction as sample_agent.py computes it:
\* flood fill from its target around the two trails.
SampleScore == flood_fill_space(Target(resp.move), board, Occupied)

\* C14: a move returned by the simple variant carries the boost flag exactly
\* when boosts_remaining > 0 and the answered direction's space score exceeds
\* 10; with boosts_remaining = 0 it never does.
C14_BoostGate ==
  Moved =>
    /\ resp.boost = (Me.boosts_remaining > 0 /\ SampleScore > BOOST_SPACE)
    /\ (Me.boosts_remaining = 0 => ~resp.boost)

\* A boost was requested.
C14_Witness == Moved /\ resp.boost /\ Me.boosts_remaining > 0 /\ SampleScore > BOOST_SPACE

\* The corridor row of the agent that was answered.
MyRow == CorridorY(MyStart, board)

\* The opponent's head is strictly between the head's column and the exit column.
StrictlyBetween ==
  \/ (MyHead[1] < TheirHead[1] /\ TheirHead[1] < MyStart[1])
  \/ (MyStart[1] < TheirHead[1] /\ TheirHead[1] < MyHead[1])

\* The case of C15: a move query answered while the phase was panic, the
\* living opponent's head on the corridor row.
C15_Case ==
  /\ Moved
  /\ resp.from = "panic"
  /\ Opp.alive
  /\ TheirHead[2] = MyRow

\* C15 as claimed: such a query leaves the phase post_corridor_fill when the
\* opponent's head is strictly between the head's column and the exit column,
\* wherever the own head is; when it is not strictly between, the phase stays
\* panic unless the head is on the corridor exit.
C15_Infiltration ==
  C15_Case =>
    /\ (StrictlyBetween => phase = "post_corridor_fill")
    /\ (~StrictlyBetween /\ ~C2_AtExit => phase = "panic")

\* The case of C16: a move query was answered and the phase after it is panic.
C16_Case == Moved /\ phase = "panic" /\ Options # <<>>

\* The escape step the decision order prescribes: vertical toward the corridor
\* row while off it, horizontal toward the exit column once on it.
C16_Step ==
  IF MyHead[2] # MyRow
  THEN (IF MyHead[2] < MyRow THEN "DOWN" ELSE "UP")
  ELSE (IF MyHead[1] < MyStart[1] THEN "RIGHT" ELSE "LEFT")

\* C16: a move query that stays in panic returns the prescribed escape step
\* when its target is not suicidal and the generic non-suicidal selection
\* otherwise; on the corridor row the escape bias is the sign of the step.
C16_PanicOrder ==
  C16_Case =>
    /\ resp.move = IF ~Suicidal(Target(C16_Step)) THEN C16_Step
                   ELSE choose_non_suicidal_move(MyHead, board, Occupied, Options, Me.direction)
    /\ (MyHead[2] = MyRow => /\ MyHead[1] # MyStart[1]
                             /\ escape_dx = IF MyHead[1] < MyStart[1] THEN 1 ELSE -1)

\* The horizontal step along the corridor row was returned and recorded as
\* the escape bias.
C16_Witness ==
  /\ C16_Case
  /\ MyHead[2] = MyRow
  /\ resp.move = "RIGHT"
  /\ escape_dx = 1
  /\ ~Suicidal(Target("RIGHT"))

\* The case of C17: a move query answered while the phase was
\* post_corridor_fill with an escape bias recorded.
C17_Case ==
  /\ Moved
  /\ resp.from = "post_corridor_fill"
  /\ escape_dx \in {-1, 1}
  /\ Options # <<>>

\* The horizontal direction of the recorded escape bias.
C17_Along == IF escape_dx = 1 THEN "RIGHT" ELSE "LEFT"

\* C17 as claimed: such a query returns the horizontal direction of the bias
\* when its target is not suicidal; otherwise a vertical direction with a
\* non-suicidal target when there is one; otherwise what the generic
\* non-suicidal selection returns.
C17_PostOrder ==
  C17_Case =>
    IF ~Suicidal(Target(C17_Along)) THEN resp.move = C17_Along
    ELSE IF ~Suicidal(Target("UP")) \/ ~Suicidal(Target("DOWN"))
    THEN resp.move \in {"UP", "DOWN"} /\ ~Suicidal(Target(resp.move))
    ELSE resp.move = choose_non_suicidal_move(MyHead, board, Occupied, Options, Me.direction)


\* C18 as claimed: a move query that was under way when a match reset arrived
\* writes, once that reset has finished, no phase but floodfill and no escape
\* bias but 0, and when it finishes with nothing else under way and the
\* reset's answer the last one given, the phase is floodfill and the escape
\* bias 0.
C18_ResetAtomic ==
  [][\A t \in Threads :
       (mv[t].pc # "idle" /\ mv[t].reset = "done" /\ mv'[t] # mv[t]) =>
         /\ phase' \in {phase, "floodfill"}
         /\ escape_dx' \in {escape_dx, 0}
         /\ (Quiet' /\ resp.op = "end" /\ \A u \in Threads \ {t} : mv[u].pc = "idle")
              => (phase' = "floodfill" /\ escape_dx' = 0)]_vars

\* C19 as claimed: the direction a move query of agent.py returns is never
\* the reverse of the agent's heading, in any phase.
C19_NeverReverses == Moved => resp.move # Reverse(Me.direction)

\* ------------------------------------------------------------------------
\* The escape as a match plays it: the phase is panic, or floodfill with the
\* opponent's head a column away so that the next query fires the panic
\* trigger. The engine plays as player `engine`: it asks that agent for a
\* move and, once answered, reports
\* the trail with the head moved onto the answered cell (and that cell marked
\* on the grid) before it asks again, in whatever phase the agent is. The
\* trail origin and the opponent stay as they are. An answered cell that is on
\* a trail is a collision: the agent has lost and the engine posts the end of
\* the match. The process then plays the next match (end_game resets the
\* phase "for next game"), which the engine opens with its first state report.
\* ------------------------------------------------------------------------
InitEscape ==
  /\ \E t1 \in TrailInputs(1), t2 \in TrailInputs(2), a \in BOOLEAN, p \in Players :
       /\ agents = [i \in {1, 2} |->
                      [NewAgent(i) EXCEPT !.trail = IF i = 1 THEN t1 ELSE t2,
                                          !.alive = IF i = p THEN TRUE ELSE a]]
       /\ board = [NewBoard EXCEPT !.marked = Range(t1) \cup Range(t2)]
       /\ engine = p
       /\ phase \in {"panic"} \cup
                    {ph \in {"floodfill"} : TriggerFires(ph, Head_(agents[p].trail), OppHead(agents[Other(p)]))}
  /\ turns = 0
  /\ escape_dx \in IF phase = "panic" THEN {-1, 0, 1} ELSE {0}
  /\ attrs = IF phase = "floodfill" THEN {} ELSE Attrs
  /\ resp = NoAnswer
  /\ mv = NoRequest
  /\ sy = NoSync
  /\ en = NoSync
  /\ lock = "free"
  /\ stable = {}

\* The move query answered last stayed in panic and its tentative escape
\* step was suicidal. The state is the one the query answered on: the engine
\* has not begun to report the move (the end of a lost match may be under way).
EscBlocked ==
  /\ resp.op = "move"
  /\ resp.status = 200
  /\ \A t \in Threads : mv[t].pc = "idle" /\ sy[t].pc = "idle"
  /\ phase = "panic"
  /\ Tentative(MyHead, MyStart, board) # "None"
  /\ Suicidal(Target(Tentative(MyHead, MyStart, board)))

\* The engine asks for the next move.
Esc_Query ==
  /\ Quiet
  /\ resp.op \notin {"move", "end"}
  /\ M_Begin(1, engine)

\* The answered cell is free: the engine reports the state after the move.
Esc_Sync ==
  /\ Quiet
  /\ resp.op = "move"
  /\ Target(resp.move) \notin Occupied
  /\ LET cell == Target(resp.move)
         trail == Append(Me.trail, cell)
         grid == [readable |-> TRUE, marked |-> board.marked \cup {cell}]
     IN IF engine = 1
        THEN S_Begin(1, [board |-> grid, agent1_trail |-> trail])
        ELSE S_Begin(1, [board |-> grid, agent2_trail |-> trail])

\* The answered cell is on a trail: the engine ends the match, the agent lost.
Esc_End ==
  /\ Quiet
  /\ resp.op = "move"
  /\ Target(resp.move) \in Occupied
  /\ IF engine = 1
     THEN E_Begin(1, [agent1_alive |-> JBool(FALSE)])
     ELSE E_Begin(1, [agent2_alive |-> JBool(FALSE)])

\* The match is over: the engine opens the next one with its first report,
\* the opponent on its start cell.
Esc_Match ==
  /\ Quiet
  /\ resp.op = "end"
  /\ \E own \in TrailInputs(engine) :
       LET t1 == IF engine = 1 THEN own ELSE <<StartPos(1)>>
           t2 == IF engine = 2 THEN own ELSE <<StartPos(2)>>
           grid == [readable |-> TRUE, marked |-> Range(t1) \cup Range(t2)]
       IN IF engine = 1
          THEN S_Begin(1, [board |-> grid, agent1_trail |-> t1, agent2_trail |-> t2,
                           agent1_alive |-> JBool(TRUE)])
          ELSE S_Begin(1, [board |-> grid, agent1_trail |-> t1, agent2_trail |-> t2,
                           agent2_alive |-> JBool(TRUE)])

NextEscape ==
  Esc_Query \/ M_Step(1) \/ Esc_Sync \/ S_Step(1) \/ Esc_End \/ E_Step(1) \/ Esc_Match

\* What M_Options can leave, stated without the flood fill: the candidates
\* of the request in slot t with any space scores.
EscOptionLists(t) ==
  LET head == mv[t].head
      dirs == SelectSeq(Candidates(agents[mv[t].player].direction),
                        LAMBDA d : Step(head, d, board.width, board.height) # head)
  IN {[i \in 1 .. Len(dirs) |-> <<sp[i], dirs[i], Step(head, dirs[i], board.width, board.height)>>] :
        sp \in [1 .. Len(dirs) -> 0 .. (board.width * board.height)]}

\* The step M_Options(1) by what it shows: the request leaves line 179 with
\* its candidates, or is answered the heading.
Esc_Options ==
  /\ mv[1].pc = "options"
  /\ \/ /\ mv' = [mv EXCEPT ![1] = MvIdle]
        /\ resp' = Answer200(1, agents[mv[1].player].direction)
     \/ /\ mv' \in {[mv EXCEPT ![1].pc = "trigger", ![1].options = o] : o \in EscOptionLists(1)}
        /\ UNCHANGED resp
  /\ UNCHANGED <<board, agents, turns, phase, escape_dx, sy, en, lock, stable, engine, attrs>>

\* The scheduling: the engine sends the request that is due (the next query,
\* the report of the move, the end of a lost match, the opening of the next
\* one), and a request under way takes its next statement (the handlers have
\* no loop that waits, and the lock is free whenever one of them wants it, as
\* one request is under way at a time). The statement of lines 153-179 is
\* named by what it shows: with the request at line 153 the only step of
\* NextEscape is M_Options(1), and it can always be taken.
SpecEscape ==
  /\ InitEscape
  /\ [][NextEscape]_vars
  /\ WF_vars(Esc_Query)
  /\ WF_vars(M_Reads(1))
  /\ WF_vars(Esc_Options)
  /\ WF_vars(M_Decides(1))
  /\ WF_vars(Esc_Sync)
  /\ WF_vars(S_Step(1))
  /\ WF_vars(Esc_End)
  /\ WF_vars(E_Step(1))
  /\ WF_vars(Esc_Match)

\* The move query answered last ended the escape: it took the phase to
\* post_corridor_fill.
EscLeft == Moved /\ resp.from # "post_corridor_fill" /\ phase = "post_corridor_fill"

\* The alive opponent's head is on the exit column of the engine's agent:
\* the column on which the infiltration check of the code and the rule of
\* the design differ (C15).
EscOppOnExit ==
  LET opponent == agents[Other(engine)] IN
  /\ opponent.alive
  /\ opponent.trail # <<>>
  /\ Head_(opponent.trail)[1] = agents[engine].trail[1][1]

\* C20 as claimed: from panic, unless a tentative escape step is suicidal,
\* after finitely many move queries a query takes the phase to
\* post_corridor_fill, and the query that does so has the head on the exit
\* column of the corridor row. A match with the opponent's head on the exit
\* column is not held against the claim, so that a run against it owes
\* nothing to the boundary of C15.
C20_ReachesExit ==
  /\ [](EscLeft /\ resp.from = "panic" /\ ~EscOppOnExit => C2_AtExit)
  /\ (phase = "panic") ~> (EscBlocked \/ EscLeft)

\* C20 amended: from panic, unless a tentative escape step is suicidal, after
\* finitely many move queries a query takes the phase to post_corridor_fill,
\* and the query that does so has the head on the corridor exit or, earlier,
\* where the head stands, found the corridor infiltrated.
C20_LeavesPanic ==
  /\ [](EscLeft => (C2_AtExit \/ (Opp.alive /\ C2_Infiltrated)))
  /\ (phase = "panic") ~> (EscBlocked \/ EscLeft)

\* An escape ended on the corridor exit after the engine applied a vertical
\* step onto the corridor row and a horizontal step along it.
C20_Witness ==
  LET n == Len(Me.trail) IN
  /\ EscLeft
  /\ C2_AtExit
  /\ n >= 4
  /\ Me.trail[n - 1][2] = MyHead[2] /\ Me.trail[n - 1][1] # MyHead[1]
  /\ Me.trail[n - 2][2] # MyHead[2] /\ Me.trail[n - 2][1] = Me.trail[n - 1][1]
  /\ escape_dx # 0

============================================================================
